---- MODULE Spec2Model ----
(***************************************************************************)
(* Attendance punch-in / punch-out / today-status views of                 *)
(* buzzhire_backend/buzz/views.py, over a store of Attendance rows.        *)
(*                                                                         *)
(* Spec   : every request runs as one atomic step (serial execution).      *)
(* SpecC  : requests of several workers interleave their steps             *)
(*          (fetch, decide, save/create); the views take no lock and open  *)
(*          no transaction.                                                *)
(* SpecAuth : the sign-in view GoogleAuthView over the User table, one     *)
(*          request per step.                                              *)
(***************************************************************************)
EXTENDS Integers, Sequences, FiniteSets, TLC

\* records : the Attendance table      users  : the User table
\* lastOk  : per user, the day and operation of the last successful punch
VARIABLES records, now, req, resp, procs, served, users, lastOk

vars == <<records, now, req, resp, procs, served, users, lastOk>>

(***************************************************************************)
(* Bounds of the model.                                                    *)
(***************************************************************************)
\* the clock runs over 0..MaxNow
MaxNow == 2
\* clock ticks per calendar day
DayLen == 2
\* request latitudes are 0..MaxLat, longitudes 0..MaxLon (grid units)
MaxLat == 1
MaxLon == 1
\* rows the Attendance table can hold
MaxRecords == 2
\* concurrent request workers of SpecC
MaxProcs == 2
\* requests the workers of SpecC accept
MaxServed == 4

Users == {"u1", "u2"}

Procs == 1..MaxProcs

\* Python's None, and a present value, for nullable fields
None == <<>>

Some(v) == <<v>>

(***************************************************************************)
(* Configuration and distance (constants.py, utils/distance_utils.py).     *)
(***************************************************************************)
\* millimetres per grid unit of latitude / longitude
GridStep == 5000

\* acceptance radius, millimetres
PUNCH_RADIUS == 10000

BRANCHES ==
  << [name |-> "A", lat |-> 0 - 2, lon |-> 1],
     [name |-> "B", lat |-> 2, lon |-> 0 - 1] >>

RECURSIVE SqrtSearch(_, _, _)
\* the largest r in lo..hi with r * r <= n
SqrtSearch(n, lo, hi) ==
  IF lo >= hi THEN lo
  ELSE LET mid == (lo + hi + 1) \div 2
       IN IF mid * mid <= n THEN SqrtSearch(n, mid, hi)
          ELSE SqrtSearch(n, lo, mid - 1)

ISqrt(n) == SqrtSearch(n, 0, 46340)

\* planar distance in millimetres between two grid coordinates
calculate_distance(lat1, lon1, lat2, lon2) ==
  ISqrt(((lat1 - lat2) * (lat1 - lat2) + (lon1 - lon2) * (lon1 - lon2))
        * GridStep * GridStep)

\* round(x, 2) of a distance in metres: millimetres to hundredths of a metre,
\* ties to even
Round2(d) ==
  LET q == d \div 10
      r == d % 10
  IN IF r < 5 THEN q
     ELSE IF r > 5 THEN q + 1
     ELSE IF q % 2 = 0 THEN q ELSE q + 1

RECURSIVE NearestLoopLast(_, _, _, _, _)
\* the for-loop taking a branch that is as near as the running minimum
NearestLoopLast(user_lat, user_lon, i, nearest_branch, nearest_distance) ==
  IF i > Len(BRANCHES) THEN
    [branch |-> nearest_branch, distance |-> nearest_distance]
  ELSE
    LET b == BRANCHES[i]
        dist == calculate_distance(user_lat, user_lon, b.lat, b.lon)
    IN IF nearest_distance = None \/ dist <= nearest_distance[1]
       THEN NearestLoopLast(user_lat, user_lon, i + 1, Some(b), Some(dist))
       ELSE NearestLoopLast(user_lat, user_lon, i + 1, nearest_branch, nearest_distance)

RECURSIVE NearestLoop(_, _, _, _, _)
\* the for-loop over BRANCHES from index i on, with the running minimum
NearestLoop(user_lat, user_lon, i, nearest_branch, nearest_distance) ==
  IF i > Len(BRANCHES) THEN
    [branch |-> nearest_branch, distance |-> nearest_distance]
  ELSE
    LET b == BRANCHES[i]
        dist == calculate_distance(user_lat, user_lon, b.lat, b.lon)
    IN IF nearest_distance = None \/ dist < nearest_distance[1]
       THEN NearestLoop(user_lat, user_lon, i + 1, Some(b), Some(dist))
       ELSE NearestLoop(user_lat, user_lon, i + 1, nearest_branch, nearest_distance)

\* the loop's result for every request coordinate, computed once
NearestTable ==
  [la \in 0..MaxLat, lo \in 0..MaxLon |->
     LET r == NearestLoop(la, lo, 1, None, None)
     IN [branch |-> r.branch[1], distance |-> r.distance[1]]]

\* nearest_branch / nearest_distance after the loop; float("inf") is the
\* distance None here, which every finite distance is below
FindNearest(user_lat, user_lon) == NearestTable[user_lat, user_lon]

\* the range check with the boundary excluded
OutOfRangeAtRadius(distance) == distance >= PUNCH_RADIUS

\* the range check against the diameter instead of the radius
OutOfRangeOfDiameter(distance) == distance > 2 * PUNCH_RADIUS

\* the range check of both views
OutOfRange(distance) == distance > PUNCH_RADIUS

(***************************************************************************)
(* Requests.                                                               *)
(***************************************************************************)
Lats == 0..MaxLat

Lons == 0..MaxLon

\* request.data: any subset of the keys latitude, longitude
RequestData ==
  {[latitude |-> la, longitude |-> lo] : la \in Lats, lo \in Lons}
    \cup {[latitude |-> 0], [longitude |-> 0], <<>>}

HasCoords(data) == "latitude" \in DOMAIN data /\ "longitude" \in DOMAIN data

(***************************************************************************)
(* The Attendance table: records[i] is the row with id i.                  *)
(***************************************************************************)
Day(t) == t \div DayLen

\* date.today()
Today == Day(now)

\* filter(user=user) without the date: the user's rows of every day
TodayIdsAnyDay(store, user, today) ==
  {i \in 1..Len(store) : store[i].user = user}

\* filter(user=user, punch_in_time__date=today)
TodayIds(store, user, today) ==
  {i \in 1..Len(store) :
     store[i].user = user /\ Day(store[i].punch_in_time) = today}

MaxOf(S) == CHOOSE x \in S : \A y \in S : y <= x

MinOf(S) == CHOOSE x \in S : \A y \in S : x <= y

\* the query with the date filter put on punch_out_time instead of punch_in_time
LatestTodayByPunchOut(store, user, today) ==
  LET ids == {i \in 1..Len(store) :
                /\ store[i].user = user
                /\ store[i].punch_out_time # None
                /\ Day(store[i].punch_out_time[1]) = today}
  IN IF ids = {} THEN None ELSE Some(store[MaxOf(ids)])

\* .order_by('-id').first()
LatestToday(store, user, today) ==
  LET ids == TodayIds(store, user, today)
  IN IF ids = {} THEN None ELSE Some(store[MaxOf(ids)])

\* the query without its punch_out_time__isnull=True filter
ActiveTodayAnyRow(store, user, today) ==
  LET ids == TodayIds(store, user, today)
  IN IF ids = {} THEN None ELSE Some(store[MinOf(ids)])

\* filter(..., punch_out_time__isnull=True).first(): an unordered queryset,
\* which first() orders by primary key
ActiveToday(store, user, today) ==
  LET ids == {i \in TodayIds(store, user, today) : store[i].punch_out_time = None}
  IN IF ids = {} THEN None ELSE Some(store[MinOf(ids)])

\* create() with the two coordinates passed the wrong way round
NewAttendanceSwapped(store, user, t, user_lat, user_lon) ==
  [id |-> Len(store) + 1, user |-> user,
   punch_in_time |-> t, punch_in_lat |-> user_lon, punch_in_lon |-> user_lat,
   punch_out_time |-> None, punch_out_lat |-> None, punch_out_lon |-> None]

\* Attendance.objects.create(user, punch_in_time, punch_in_lat, punch_in_lon)
NewAttendance(store, user, t, user_lat, user_lon) ==
  [id |-> Len(store) + 1, user |-> user,
   punch_in_time |-> t, punch_in_lat |-> user_lat, punch_in_lon |-> user_lon,
   punch_out_time |-> None, punch_out_lat |-> None, punch_out_lon |-> None]

\* the re-punch-in assignments without "attendance.punch_out_time = None"
RepunchedKeepingOutTime(attendance, t, user_lat, user_lon) ==
  [attendance EXCEPT !.punch_in_time = t,
                     !.punch_in_lat = user_lat,
                     !.punch_in_lon = user_lon,
                     !.punch_out_lat = None,
                     !.punch_out_lon = None]

\* the re-punch-in branch without the reset of the punch-out coordinates
RepunchedKeepingOut(attendance, t, user_lat, user_lon) ==
  [attendance EXCEPT !.punch_in_time = t,
                     !.punch_in_lat = user_lat,
                     !.punch_in_lon = user_lon,
                     !.punch_out_time = None]

\* the assignments of the re-punch-in branch
Repunched(attendance, t, user_lat, user_lon) ==
  [attendance EXCEPT !.punch_in_time = t,
                     !.punch_in_lat = user_lat,
                     !.punch_in_lon = user_lon,
                     !.punch_out_time = None,
                     !.punch_out_lat = None,
                     !.punch_out_lon = None]

\* the punch-out assignments with punch_in_time stamped as well
PunchedOutRestamped(attendance, t, user_lat, user_lon) ==
  [attendance EXCEPT !.punch_in_time = t,
                     !.punch_out_time = Some(t),
                     !.punch_out_lat = Some(user_lat),
                     !.punch_out_lon = Some(user_lon)]

\* the assignments of the punch-out
PunchedOut(attendance, t, user_lat, user_lon) ==
  [attendance EXCEPT !.punch_out_time = Some(t),
                     !.punch_out_lat = Some(user_lat),
                     !.punch_out_lon = Some(user_lon)]

\* attendance.save(): writes every field of the instance to the row of its id
Save(store, attendance) == [store EXCEPT ![attendance.id] = attendance]

AttendanceSerializer(attendance) == attendance

(***************************************************************************)
(* Responses.                                                              *)
(***************************************************************************)
Response(op, user, body, status) ==
  [op |-> op, user |-> user, status |-> status, body |-> body]

MissingCoords(op, user) ==
  Response(op, user,
           [status |-> "failed", message |-> <<"latitude & longitude are required">>],
           400)

PunchInOutOfRange(user, nearest) ==
  Response("punch_in", user,
           [status |-> "failed", message |-> <<"You are out of range">>,
            nearest_branch |-> nearest.branch.name,
            distance |-> Round2(nearest.distance)],
           400)

AlreadyPunchedIn(user, attendance) ==
  Response("punch_in", user,
           [status |-> "failed", message |-> <<"You are already punched in today">>,
            data |-> AttendanceSerializer(attendance)],
           400)

PunchInSuccess(user, message, nearest, attendance) ==
  Response("punch_in", user,
           [status |-> "success",
            message |-> <<message, " at ", nearest.branch.name>>,
            branch |-> nearest.branch.name,
            distance |-> Round2(nearest.distance),
            data |-> AttendanceSerializer(attendance)],
           201)

NotPunchedIn(user) ==
  Response("punch_out", user,
           [status |-> "failed", message |-> <<"You have not punched in today">>],
           400)

PunchOutOutOfRange(user, nearest) ==
  Response("punch_out", user,
           [status |-> "failed",
            message |-> <<"You are out of range for ", nearest.branch.name>>,
            distance |-> Round2(nearest.distance),
            branch |-> nearest.branch.name],
           400)

PunchOutSuccess(user, nearest, attendance) ==
  Response("punch_out", user,
           [status |-> "success", message |-> <<"Punch out successful">>,
            branch |-> nearest.branch.name,
            distance |-> Round2(nearest.distance),
            data |-> AttendanceSerializer(attendance)],
           200)

\* the status flags without the "and not has_punched_out" of is_punched_in
TodayStatusInWhenOut(user, attendance) ==
  IF attendance = None THEN
    Response("today", user,
             [status |-> "success",
              data |-> [is_punched_in |-> FALSE, has_punched_out |-> FALSE,
                        punch_in_time |-> None, punch_out_time |-> None,
                        branch |-> None, distance |-> None]],
             200)
  ELSE
    LET a == attendance[1]
        is_punched_in == Some(a.punch_in_time) # None
        has_punched_out == a.punch_out_time # None
    IN Response("today", user,
                [status |-> "success",
                 data |-> [is_punched_in |-> is_punched_in,
                           has_punched_out |-> has_punched_out,
                           punch_in_time |-> Some(a.punch_in_time),
                           punch_out_time |-> a.punch_out_time,
                           branch |-> None, distance |-> None,
                           raw |-> AttendanceSerializer(a)]],
                200)

\* the Response of TodayAttendanceView.get for the fetched record
TodayStatus(user, attendance) ==
  IF attendance = None THEN
    Response("today", user,
             [status |-> "success",
              data |-> [is_punched_in |-> FALSE, has_punched_out |-> FALSE,
                        punch_in_time |-> None, punch_out_time |-> None,
                        branch |-> None, distance |-> None]],
             200)
  ELSE
    LET a == attendance[1]
        is_punched_in == Some(a.punch_in_time) # None
        has_punched_out == a.punch_out_time # None
    IN Response("today", user,
                [status |-> "success",
                 data |-> [is_punched_in |-> is_punched_in /\ ~has_punched_out,
                           has_punched_out |-> has_punched_out,
                           punch_in_time |-> Some(a.punch_in_time),
                           punch_out_time |-> a.punch_out_time,
                           branch |-> None, distance |-> None,
                           raw |-> AttendanceSerializer(a)]],
                200)

(***************************************************************************)
(* Initial state: an empty table, no request handled yet.                  *)
(***************************************************************************)
Idle == [pc |-> "idle"]

\* the history of successful punches: a 200 / 201 punch response is logged
\* under its user with the day it was answered on
Logged(log, r) ==
  IF r.op \in {"punch_in", "punch_out"} /\ r.status \in {200, 201}
  THEN [log EXCEPT ![r.user] = Some([day |-> Today, op |-> r.op])]
  ELSE log

NoRequest == [op |-> "none"]

Init ==
  /\ records = <<>>
  /\ now = 0
  /\ req = NoRequest
  /\ resp = NoRequest
  /\ procs = [p \in Procs |-> Idle]
  /\ served = 0
  /\ users = <<>>
  /\ lastOk = [user \in Users |-> None]

\* the clock advances
Tick ==
  /\ now < MaxNow
  /\ now' = now + 1
  /\ UNCHANGED <<records, req, resp, procs, served, users, lastOk>>

(***************************************************************************)
(* Serial execution: each view runs start to end as one step.              *)
(***************************************************************************)
\* PunchInView.post
PunchIn(user, data) ==
  /\ req' = [op |-> "punch_in", user |-> user, data |-> data]
  /\ UNCHANGED <<now, procs, served, users>>
  /\ IF ~HasCoords(data) THEN
       /\ resp' = MissingCoords("punch_in", user)
       /\ records' = records
     ELSE
       LET user_lat == data.latitude
           user_lon == data.longitude
           attendance == LatestToday(records, user, Today)
           nearest == FindNearest(user_lat, user_lon)
       IN IF OutOfRange(nearest.distance) THEN
            /\ resp' = PunchInOutOfRange(user, nearest)
            /\ records' = records
          ELSE IF attendance # None THEN
            IF attendance[1].punch_out_time = None THEN
              /\ resp' = AlreadyPunchedIn(user, attendance[1])
              /\ records' = records
            ELSE
              LET saved == Repunched(attendance[1], now, user_lat, user_lon)
              IN /\ records' = Save(records, saved)
                 /\ resp' = PunchInSuccess(user, "Punch in updated successfully",
                                           nearest, saved)
          ELSE
            LET created == NewAttendance(records, user, now, user_lat, user_lon)
            IN /\ Len(records) < MaxRecords
               /\ records' = Append(records, created)
               /\ resp' = PunchInSuccess(user, "Punch in successful",
                                         nearest, created)
  /\ lastOk' = Logged(lastOk, resp')

\* PunchOutView.post with the punch-out saved before the range check
PunchOutSavedFirst(user, data) ==
  /\ req' = [op |-> "punch_out", user |-> user, data |-> data]
  /\ UNCHANGED <<now, procs, served, users>>
  /\ IF ~HasCoords(data) THEN
       /\ resp' = MissingCoords("punch_out", user)
       /\ records' = records
     ELSE
       LET user_lat == data.latitude
           user_lon == data.longitude
           attendance == ActiveToday(records, user, Today)
       IN IF attendance = None THEN
            /\ resp' = NotPunchedIn(user)
            /\ records' = records
          ELSE
            LET nearest == FindNearest(user_lat, user_lon)
                saved == PunchedOut(attendance[1], now, user_lat, user_lon)
            IN /\ records' = Save(records, saved)
               /\ resp' = IF OutOfRange(nearest.distance)
                          THEN PunchOutOutOfRange(user, nearest)
                          ELSE PunchOutSuccess(user, nearest, saved)
  /\ lastOk' = Logged(lastOk, resp')

\* PunchOutView.post
PunchOut(user, data) ==
  /\ req' = [op |-> "punch_out", user |-> user, data |-> data]
  /\ UNCHANGED <<now, procs, served, users>>
  /\ IF ~HasCoords(data) THEN
       /\ resp' = MissingCoords("punch_out", user)
       /\ records' = records
     ELSE
       LET user_lat == data.latitude
           user_lon == data.longitude
           attendance == ActiveToday(records, user, Today)
       IN IF attendance = None THEN
            /\ resp' = NotPunchedIn(user)
            /\ records' = records
          ELSE
            LET nearest == FindNearest(user_lat, user_lon)
            IN IF OutOfRange(nearest.distance) THEN
                 /\ resp' = PunchOutOutOfRange(user, nearest)
                 /\ records' = records
               ELSE
                 LET saved == PunchedOut(attendance[1], now, user_lat, user_lon)
                 IN /\ records' = Save(records, saved)
                    /\ resp' = PunchOutSuccess(user, nearest, saved)
  /\ lastOk' = Logged(lastOk, resp')

\* TodayAttendanceView.get written with get_or_create: a user with no record
\* today gets one
TodayGetOrCreate(user) ==
  /\ req' = [op |-> "today", user |-> user]
  /\ UNCHANGED <<now, procs, served, users, lastOk>>
  /\ LET attendance == LatestToday(records, user, Today)
     IN IF attendance # None \/ Len(records) >= MaxRecords THEN
          /\ resp' = TodayStatus(user, attendance)
          /\ records' = records
        ELSE
          LET created == NewAttendance(records, user, now, 0, 0)
          IN /\ records' = Append(records, created)
             /\ resp' = TodayStatus(user, Some(created))

\* TodayAttendanceView.get
TodayGet(user) ==
  /\ req' = [op |-> "today", user |-> user]
  /\ resp' = TodayStatus(user, LatestToday(records, user, Today))
  /\ UNCHANGED <<records, now, procs, served, users, lastOk>>

Next ==
  \/ Tick
  \/ \E user \in Users, data \in RequestData : PunchIn(user, data)
  \/ \E user \in Users, data \in RequestData : PunchOut(user, data)
  \/ \E user \in Users : TodayGet(user)

Spec == Init /\ [][Next]_vars

(***************************************************************************)
(* Interleaved execution: the views take no lock and open no transaction,  *)
(* so a worker's request is two steps on the table, the query with the     *)
(* decision taken on the fetched instance, and later the write; steps of   *)
(* other workers may fall between the two. The decision reads only the     *)
(* worker's own variables, so it is taken with the query.                  *)
(***************************************************************************)
Pending(op, user, user_lat, user_lon, attendance) ==
  [pc |-> "write", op |-> op, user |-> user,
   user_lat |-> user_lat, user_lon |-> user_lon, attendance |-> attendance]

\* a request goes to the first idle worker
Accept(p) ==
  /\ served < MaxServed
  /\ served' = served + 1
  /\ procs[p].pc = "idle"
  /\ \A q \in Procs : q < p => procs[q].pc # "idle"

\* PunchInView.post up to the branch taken on the fetched record
PunchInFetch(p, user, data) ==
  /\ Accept(p)
  /\ UNCHANGED <<records, now, users, lastOk>>
  /\ IF ~HasCoords(data) THEN
       /\ req' = [op |-> "punch_in", user |-> user, data |-> data]
       /\ resp' = MissingCoords("punch_in", user)
       /\ procs' = procs
     ELSE
       LET user_lat == data.latitude
           user_lon == data.longitude
           attendance == LatestToday(records, user, Today)
           nearest == FindNearest(user_lat, user_lon)
       IN IF OutOfRange(nearest.distance) THEN
            /\ req' = [op |-> "punch_in", user |-> user, data |-> data]
            /\ resp' = PunchInOutOfRange(user, nearest)
            /\ procs' = procs
          ELSE IF attendance # None /\ attendance[1].punch_out_time = None THEN
            /\ req' = [op |-> "punch_in", user |-> user, data |-> data]
            /\ resp' = AlreadyPunchedIn(user, attendance[1])
            /\ procs' = procs
          ELSE
            /\ procs' = [procs EXCEPT ![p] =
                           Pending("punch_in", user, user_lat, user_lon, attendance)]
            /\ UNCHANGED <<req, resp>>

\* PunchInView.post: attendance.save() or Attendance.objects.create()
PunchInWrite(p) ==
  /\ procs[p].pc = "write"
  /\ procs[p].op = "punch_in"
  /\ UNCHANGED <<now, served, users>>
  /\ procs' = [procs EXCEPT ![p] = Idle]
  /\ LET w == procs[p]
         nearest == FindNearest(w.user_lat, w.user_lon)
     IN /\ req' = [op |-> "punch_in", user |-> w.user,
                   data |-> [latitude |-> w.user_lat, longitude |-> w.user_lon]]
        /\ IF w.attendance # None THEN
             LET saved == Repunched(w.attendance[1], now, w.user_lat, w.user_lon)
             IN /\ records' = Save(records, saved)
                /\ resp' = PunchInSuccess(w.user, "Punch in updated successfully",
                                          nearest, saved)
           ELSE
             LET created == NewAttendance(records, w.user, now, w.user_lat, w.user_lon)
             IN /\ Len(records) < MaxRecords
                /\ records' = Append(records, created)
                /\ resp' = PunchInSuccess(w.user, "Punch in successful",
                                          nearest, created)
  /\ lastOk' = Logged(lastOk, resp')

\* PunchOutView.post up to the range check
PunchOutFetch(p, user, data) ==
  /\ Accept(p)
  /\ UNCHANGED <<records, now, users, lastOk>>
  /\ IF ~HasCoords(data) THEN
       /\ req' = [op |-> "punch_out", user |-> user, data |-> data]
       /\ resp' = MissingCoords("punch_out", user)
       /\ procs' = procs
     ELSE
       LET user_lat == data.latitude
           user_lon == data.longitude
           attendance == ActiveToday(records, user, Today)
       IN IF attendance = None THEN
            /\ req' = [op |-> "punch_out", user |-> user, data |-> data]
            /\ resp' = NotPunchedIn(user)
            /\ procs' = procs
          ELSE
            LET nearest == FindNearest(user_lat, user_lon)
            IN IF OutOfRange(nearest.distance) THEN
                 /\ req' = [op |-> "punch_out", user |-> user, data |-> data]
                 /\ resp' = PunchOutOutOfRange(user, nearest)
                 /\ procs' = procs
               ELSE
                 /\ procs' = [procs EXCEPT ![p] =
                                Pending("punch_out", user, user_lat, user_lon,
                                        attendance)]
                 /\ UNCHANGED <<req, resp>>

\* PunchOutView.post: the punch-out assignments and attendance.save()
PunchOutWrite(p) ==
  /\ procs[p].pc = "write"
  /\ procs[p].op = "punch_out"
  /\ UNCHANGED <<now, served, users>>
  /\ procs' = [procs EXCEPT ![p] = Idle]
  /\ LET w == procs[p]
         nearest == FindNearest(w.user_lat, w.user_lon)
         saved == PunchedOut(w.attendance[1], now, w.user_lat, w.user_lon)
     IN /\ req' = [op |-> "punch_out", user |-> w.user,
                   data |-> [latitude |-> w.user_lat, longitude |-> w.user_lon]]
        /\ records' = Save(records, saved)
        /\ resp' = PunchOutSuccess(w.user, nearest, saved)
  /\ lastOk' = Logged(lastOk, resp')

NextC ==
  \/ Tick
  \/ \E p \in Procs, user \in Users, data \in RequestData : PunchInFetch(p, user, data)
  \/ \E p \in Procs : PunchInWrite(p)
  \/ \E p \in Procs, user \in Users, data \in RequestData : PunchOutFetch(p, user, data)
  \/ \E p \in Procs : PunchOutWrite(p)
  \/ \E user \in Users : TodayGet(user)

SpecC == Init /\ [][NextC]_vars

(***************************************************************************)
(* Authentication: GoogleAuthView.post over the User table. The attendance *)
(* views take the authenticated user as given, so sign-in is explored in a *)
(* specification of its own, SpecAuth.                                     *)
(***************************************************************************)
\* settings.WHITELISTED_EMAILS
WHITELISTED_EMAILS == {"ann@buzz", "bob@buzz"}

\* id_token.verify_oauth2_token: the claims of a token Google signed for
\* this client, or the exception the verification raises
verify_oauth2_token(token) ==
  CASE token = "t_ann"  -> [raises |-> None,
                            info |-> [email |-> "ann@buzz", name |-> "Ann", picture |-> "p1"]]
    [] token = "t_ann2" -> [raises |-> None,
                            info |-> [email |-> "ann@buzz", name |-> "Anna", picture |-> "p2"]]
    [] token = "t_bob"  -> [raises |-> None, info |-> [email |-> "bob@buzz"]]
    [] token = "t_eve"  -> [raises |-> None,
                            info |-> [email |-> "eve@else", name |-> "Eve", picture |-> "p3"]]
    [] token = "t_anon" -> [raises |-> None, info |-> [name |-> "Nobody"]]
    [] token = "t_expired" -> [raises |-> Some("InvalidValue")]
    [] OTHER -> [raises |-> Some("ValueError")]

Tokens == {"t_ann", "t_ann2", "t_bob", "t_eve", "t_anon", "t_expired", "t_garbage"}

\* request.data of the sign-in: no id_token, an empty one, or a token
AuthData == {<<>>, [id_token |-> ""]} \cup {[id_token |-> t] : t \in Tokens}

\* dict.get(key, default) with Python's None for an absent value
Get(d, key, default) == IF key \in DOMAIN d THEN Some(d[key]) ELSE default

AuthResponse(body, status) == [op |-> "google_auth", status |-> status, body |-> body]

\* User.objects.get_or_create(email=..., defaults=...): the row and the table
get_or_create(table, email, name, picture, t) ==
  LET ids == {i \in 1..Len(table) : table[i].email = email}
  IN IF ids # {} THEN
       [user |-> table[MinOf(ids)], created |-> FALSE, table |-> table]
     ELSE
       LET row == [id |-> Len(table) + 1, email |-> email, name |-> name,
                   picture |-> picture, lastlogin |-> t]
       IN [user |-> row, created |-> TRUE, table |-> Append(table, row)]

\* RefreshToken.for_user(user) with the three custom claims, and its
\* access_token, as the strings the response carries
TokenPair(user) ==
  LET claims == [user_id |-> user.id, email |-> user.email,
                 name |-> user.name, picture |-> user.picture]
  IN [access |-> <<"access", claims>>, refresh |-> <<"refresh", claims>>]

\* the user row after "if not created": name, picture and lastlogin refreshed
Refreshed(user, name, picture, t) ==
  [user EXCEPT !.name = name, !.picture = picture, !.lastlogin = t]

\* the User table with the saved row in its place
SaveUser(table, user) == [table EXCEPT ![user.id] = user]

AuthSuccess(user, email, name, picture) ==
  LET pair == TokenPair(user)
  IN AuthResponse([access |-> pair.access, refresh |-> pair.refresh,
                   email |-> email, name |-> name, picture |-> picture,
                   user_id |-> user.id],
                  200)

\* GoogleAuthView.post with the allow-list looked at after get_or_create
GoogleAuthListedLate(data) ==
  /\ req' = [op |-> "google_auth", data |-> data]
  /\ UNCHANGED <<records, now, procs, served, lastOk>>
  /\ LET token == Get(data, "id_token", None)
     IN IF token = None \/ token = Some("") THEN
          /\ resp' = AuthResponse([error |-> <<"id_token required">>], 400)
          /\ users' = users
        ELSE
          LET verified == verify_oauth2_token(token[1])
          IN IF verified.raises = Some("InvalidValue") THEN
               /\ resp' = AuthResponse([error |-> <<"Invalid token (details: ",
                                                     token[1], ")">>], 400)
               /\ users' = users
             ELSE IF verified.raises # None THEN
               /\ resp' = AuthResponse([error |-> <<"Invalid token (internal error)">>],
                                       400)
               /\ users' = users
             ELSE
               LET info == verified.info
                   email == Get(info, "email", None)
                   name == Get(info, "name", email)
                   picture == Get(info, "picture", None)
               IN IF email = None THEN
                    /\ resp' = AuthResponse([error |-> <<"Not allowed">>], 403)
                    /\ users' = users
                  ELSE
                    LET got == get_or_create(users, email[1], name, picture, now)
                        user == IF got.created THEN got.user
                                ELSE Refreshed(got.user, name, picture, now)
                    IN /\ users' = SaveUser(got.table, user)
                       /\ resp' = IF email[1] \notin WHITELISTED_EMAILS
                                  THEN AuthResponse([error |-> <<"Not allowed">>], 403)
                                  ELSE AuthSuccess(user, email, name, picture)

\* GoogleAuthView.post
GoogleAuth(data) ==
  /\ req' = [op |-> "google_auth", data |-> data]
  /\ UNCHANGED <<records, now, procs, served, lastOk>>
  /\ LET token == Get(data, "id_token", None)
     IN IF token = None \/ token = Some("") THEN
          /\ resp' = AuthResponse([error |-> <<"id_token required">>], 400)
          /\ users' = users
        ELSE
          LET verified == verify_oauth2_token(token[1])
          IN IF verified.raises = Some("InvalidValue") THEN
               /\ resp' = AuthResponse([error |-> <<"Invalid token (details: ",
                                                     token[1], ")">>], 400)
               /\ users' = users
             ELSE IF verified.raises # None THEN
               /\ resp' = AuthResponse([error |-> <<"Invalid token (internal error)">>],
                                       400)
               /\ users' = users
             ELSE
               LET info == verified.info
                   email == Get(info, "email", None)
                   name == Get(info, "name", email)
                   picture == Get(info, "picture", None)
               IN IF email = None \/ email[1] \notin WHITELISTED_EMAILS THEN
                    /\ resp' = AuthResponse([error |-> <<"Not allowed">>], 403)
                    /\ users' = users
                  ELSE
                    LET got == get_or_create(users, email[1], name, picture, now)
                        user == IF got.created THEN got.user
                                ELSE Refreshed(got.user, name, picture, now)
                    IN /\ users' = SaveUser(got.table, user)
                       /\ resp' = AuthSuccess(user, email, name, picture)

NextAuth ==
  \/ Tick
  \/ \E data \in AuthData : GoogleAuth(data)

SpecAuth == Init /\ [][NextAuth]_vars

(***************************************************************************)
(* Vocabulary of the properties.                                           *)
(***************************************************************************)
Days == 0..Day(MaxNow)

\* ids of the rows of a user whose punch_in_time falls on a day
RowsOf(user, day) ==
  {i \in 1..Len(records) :
     records[i].user = user /\ Day(records[i].punch_in_time) = day}

OpenRowsOf(user, day) ==
  {i \in RowsOf(user, day) : records[i].punch_out_time = None}

\* the state of a user's day: NONE, PUNCHED_IN or PUNCHED_OUT
\* (of the most recently created row of that user and day)
DayState(store, user, today) ==
  LET ids == {i \in 1..Len(store) :
                store[i].user = user /\ store[i].punch_in_time \div DayLen = today}
  IN IF ids = {} THEN "NONE"
     ELSE IF store[MaxOf(ids)].punch_out_time = None THEN "PUNCHED_IN"
     ELSE "PUNCHED_OUT"

\* id of the row DayState speaks of, when there is one
DayRow(store, user, today) ==
  MaxOf({i \in 1..Len(store) :
           store[i].user = user /\ store[i].punch_in_time \div DayLen = today})

\* the coordinate is farther than the acceptance radius from every branch
Far(data) ==
  \A i \in 1..Len(BRANCHES) :
    calculate_distance(data.latitude, data.longitude,
                       BRANCHES[i].lat, BRANCHES[i].lon) > PUNCH_RADIUS

\* every row but row i is as it was
OthersUnchanged(i) ==
  /\ Len(records') = Len(records)
  /\ \A j \in 1..Len(records) : j # i => records'[j] = records[j]

Failed(r) == r.op \in {"punch_in", "punch_out"} /\ r.body.status = "failed"

Succeeded(r) == r.op \in {"punch_in", "punch_out"} /\ r.body.status = "success"

IsOutcome(r, op, message) ==
  r.op = op /\ r.status = 400 /\ r.body.status = "failed" /\ r.body.message[1] = message

\* C1: under serial execution every reachable table holds, for each user and
\* calendar day, at most one row whose punch_out_time is null.
C1_AtMostOneOpen ==
  \A user \in Users, day \in Days : Cardinality(OpenRowsOf(user, day)) <= 1

\* a punch-in was tried while the user had an open row today, and was rejected
C1_Witness ==
  /\ IsOutcome(resp, "punch_in", "You are already punched in today")
  /\ Cardinality(OpenRowsOf(resp.user, Today)) = 1

\* C2: when punch-ins of one user on one day interleave their query and their
\* write, the table still holds at most one open row for that user and day,
\* and never a second row for that user and day.
C2_NoDuplicateUnderRace ==
  \A user \in Users, day \in Days :
    /\ Cardinality(OpenRowsOf(user, day)) <= 1
    /\ Cardinality(RowsOf(user, day)) <= 1

\* the step has appended one row for the user, punched in now at the
\* coordinate, with the punch-out fields null
C3_Created(user, data) ==
  /\ Len(records') = Len(records) + 1
  /\ SubSeq(records', 1, Len(records)) = records
  /\ LET r == records'[Len(records')]
     IN /\ r.id = Len(records')
        /\ r.user = user
        /\ r.punch_in_time = now
        /\ r.punch_in_lat = data.latitude
        /\ r.punch_in_lon = data.longitude
        /\ r.punch_out_time = None
        /\ r.punch_out_lat = None
        /\ r.punch_out_lon = None

\* C3 as stated: a punch-in at a coordinate in state NONE creates exactly one
\* row, with the punch-in time and coordinates set and the punch-out fields
\* null.
C3_NoneCreates ==
  [][\A user \in Users, data \in RequestData :
       (/\ PunchIn(user, data)
        /\ HasCoords(data)
        /\ DayState(records, user, Today) = "NONE")
         => C3_Created(user, data)]_vars

\* C3 amended: a punch-in in state NONE whose coordinates are present and
\* within the radius creates exactly one row, with the punch-in time and
\* coordinates set and the punch-out fields null, and answers 201.
C3_NoneInRangeCreates ==
  [][\A user \in Users, data \in RequestData :
       (/\ PunchIn(user, data)
        /\ DayState(records, user, Today) = "NONE"
        /\ HasCoords(data)
        /\ ~Far(data))
         => /\ C3_Created(user, data)
            /\ resp'.status = 201
            /\ resp'.body.status = "success"]_vars

\* a first punch-in of the day has created a row
C3_Witness ==
  /\ resp.op = "punch_in"
  /\ resp.status = 201
  /\ resp.body.message[1] = "Punch in successful"
  /\ records[Len(records)] = resp.body.data

\* C4 as stated: a punch-in in state PUNCHED_IN fails with "You are already
\* punched in today" and leaves the table as it was, for every coordinate
\* supplied.
C4_AlreadyForEveryCoordinate ==
  [][\A user \in Users, data \in RequestData :
       (/\ PunchIn(user, data)
        /\ HasCoords(data)
        /\ DayState(records, user, Today) = "PUNCHED_IN")
         => /\ IsOutcome(resp', "punch_in", "You are already punched in today")
            /\ records' = records]_vars

\* C4 amended: a punch-in in state PUNCHED_IN leaves the table as it was for
\* every coordinate supplied; it fails with "You are already punched in today"
\* when the coordinate is within the radius and with "You are out of range"
\* when it is not.
C4_AlreadyWhenInRange ==
  [][\A user \in Users, data \in RequestData :
       (/\ PunchIn(user, data)
        /\ HasCoords(data)
        /\ DayState(records, user, Today) = "PUNCHED_IN")
         => /\ records' = records
            /\ IF Far(data)
               THEN IsOutcome(resp', "punch_in", "You are out of range")
               ELSE /\ IsOutcome(resp', "punch_in", "You are already punched in today")
                    /\ resp'.body.data = records[DayRow(records, user, Today)]]_vars

\* an in-range punch-in was rejected because the user's row of today is open
C4_Witness ==
  /\ IsOutcome(resp, "punch_in", "You are already punched in today")
  /\ HasCoords(req.data)
  /\ ~Far(req.data)
  /\ DayState(records, req.user, Today) = "PUNCHED_IN"

\* C5: a punch-in in state PUNCHED_OUT with a coordinate in range overwrites
\* the row of today: the number of rows and the row's id are unchanged, the
\* punch-in time and coordinates take the new values and the punch-out
\* fields become null.
C5_RepunchOverwrites ==
  [][\A user \in Users, data \in RequestData :
       (/\ PunchIn(user, data)
        /\ HasCoords(data)
        /\ ~Far(data)
        /\ DayState(records, user, Today) = "PUNCHED_OUT")
         => LET i == DayRow(records, user, Today)
            IN /\ OthersUnchanged(i)
               /\ records'[i] =
                    [id |-> i, user |-> user,
                     punch_in_time |-> now,
                     punch_in_lat |-> data.latitude,
                     punch_in_lon |-> data.longitude,
                     punch_out_time |-> None,
                     punch_out_lat |-> None,
                     punch_out_lon |-> None]
               /\ resp'.status = 201]_vars

\* a punch-in after a punch-out of the same day has reopened the only row,
\* at a later time than the table's first punch-in
C5_Witness ==
  /\ resp.op = "punch_in"
  /\ resp.status = 201
  /\ resp.body.message[1] = "Punch in updated successfully"
  /\ Len(records) = 1
  /\ records[1] = resp.body.data
  /\ records[1].punch_in_time > 0

\* C6: a punch-out at a coordinate in state NONE or PUNCHED_OUT fails with
\* "You have not punched in today" and leaves the table as it was, whether the
\* coordinate is within the radius or not.
C6_NotPunchedInAnyCoordinate ==
  [][\A user \in Users, data \in RequestData :
       (/\ PunchOut(user, data)
        /\ HasCoords(data)
        /\ DayState(records, user, Today) \in {"NONE", "PUNCHED_OUT"})
         => /\ IsOutcome(resp', "punch_out", "You have not punched in today")
            /\ records' = records]_vars

\* a punch-out at an out-of-range coordinate, by a user who had punched out
\* today, was answered "You have not punched in today"
C6_Witness ==
  /\ IsOutcome(resp, "punch_out", "You have not punched in today")
  /\ HasCoords(req.data)
  /\ Far(req.data)
  /\ DayState(records, req.user, Today) = "PUNCHED_OUT"

\* C7: a punch-out in state PUNCHED_IN at a coordinate within the radius sets
\* punch_out_time, punch_out_lat and punch_out_lon on the row of today and
\* leaves its punch-in fields, and every other row, as they were; no row is
\* created.
C7_PunchOutSetsOutFields ==
  [][\A user \in Users, data \in RequestData :
       (/\ PunchOut(user, data)
        /\ HasCoords(data)
        /\ ~Far(data)
        /\ DayState(records, user, Today) = "PUNCHED_IN")
         => LET i == DayRow(records, user, Today)
            IN /\ OthersUnchanged(i)
               /\ records'[i] =
                    [id |-> i, user |-> user,
                     punch_in_time |-> records[i].punch_in_time,
                     punch_in_lat |-> records[i].punch_in_lat,
                     punch_in_lon |-> records[i].punch_in_lon,
                     punch_out_time |-> Some(now),
                     punch_out_lat |-> Some(data.latitude),
                     punch_out_lon |-> Some(data.longitude)]
               /\ resp'.status = 200]_vars

\* a punch-out has closed a row at a later time and another coordinate than
\* its punch-in
C7_Witness ==
  /\ resp.op = "punch_out"
  /\ resp.status = 200
  /\ \E i \in 1..Len(records) :
       /\ records[i] = resp.body.data
       /\ records[i].punch_out_time # None
       /\ records[i].punch_out_time[1] > records[i].punch_in_time
       /\ records[i].punch_out_lat[1] # records[i].punch_in_lat

\* C8 as stated: at a coordinate farther than the radius from every branch,
\* punch-in and punch-out both fail with the out-of-range message and leave
\* the table as it was, in every state of the user's day.
C8_FarAlwaysOutOfRange ==
  [][\A user \in Users, data \in RequestData :
       /\ (PunchIn(user, data) /\ HasCoords(data) /\ Far(data))
            => /\ IsOutcome(resp', "punch_in", "You are out of range")
               /\ records' = records
       /\ (PunchOut(user, data) /\ HasCoords(data) /\ Far(data))
            => /\ IsOutcome(resp', "punch_out", "You are out of range for ")
               /\ records' = records]_vars

\* C8 amended: at a coordinate farther than the radius from every branch,
\* punch-in fails with "You are out of range" in every state of the user's
\* day; punch-out fails with "You are out of range for <branch>" in state
\* PUNCHED_IN and with "You have not punched in today" in states NONE and
\* PUNCHED_OUT; the table is left as it was in every case.
C8_FarRejected ==
  [][\A user \in Users, data \in RequestData :
       /\ (PunchIn(user, data) /\ HasCoords(data) /\ Far(data))
            => /\ IsOutcome(resp', "punch_in", "You are out of range")
               /\ records' = records
       /\ (PunchOut(user, data) /\ HasCoords(data) /\ Far(data))
            => /\ records' = records
               /\ IF DayState(records, user, Today) = "PUNCHED_IN"
                  THEN IsOutcome(resp', "punch_out", "You are out of range for ")
                  ELSE IsOutcome(resp', "punch_out",
                                 "You have not punched in today")]_vars

\* a punch-out of a punched-in user at a far coordinate was rejected as out of
\* range
C8_Witness ==
  /\ IsOutcome(resp, "punch_out", "You are out of range for ")
  /\ Far(req.data)
  /\ DayState(records, req.user, Today) = "PUNCHED_IN"

\* C9: a punch-in or punch-out that answers with a failure (missing
\* coordinates, out of range, already punched in, not punched in) leaves the
\* table as it was.
C9_FailureLeavesStore ==
  [][\A user \in Users, data \in RequestData :
       ((PunchIn(user, data) \/ PunchOut(user, data)) /\ Failed(resp'))
         => records' = records]_vars

\* a request has failed on a table that holds rows
C9_Witness ==
  /\ Failed(resp)
  /\ Len(records) > 0

\* C10: a today-status request of a user that follows that user's successful
\* punch-in, on the day of that punch-in, reports is_punched_in true and
\* has_punched_out false; one that follows the user's successful punch-out
\* reports is_punched_in false and has_punched_out true.
C10_RoundTrip ==
  [][\A user \in Users :
       (/\ TodayGet(user)
        /\ Succeeded(resp)
        /\ resp.user = user
        /\ Day(resp.body.data.punch_in_time) = Today)
         => /\ resp.op = "punch_in"
               => /\ resp'.body.data.is_punched_in = TRUE
                  /\ resp'.body.data.has_punched_out = FALSE
            /\ resp.op = "punch_out"
               => /\ resp'.body.data.is_punched_in = FALSE
                  /\ resp'.body.data.has_punched_out = TRUE]_vars

\* today-status has reported a punched-out day
C10_Witness ==
  /\ resp.op = "today"
  /\ resp.body.data.has_punched_out = TRUE
  /\ resp.body.data.is_punched_in = FALSE

(***************************************************************************)
(* C11: the today-status answer reports is_punched_in exactly when today's *)
(* record exists with no punch-out time, has_punched_out exactly when it   *)
(* exists with a punch-out time, never both; with no record today both     *)
(* flags are false and both timestamps are null.                           *)
(***************************************************************************)
C11_TodayFlags ==
  [][\A user \in Users :
       TodayGet(user)
         => LET st == DayState(records, user, Today)
                d == resp'.body.data
            IN /\ d.is_punched_in = (st = "PUNCHED_IN")
               /\ d.has_punched_out = (st = "PUNCHED_OUT")
               /\ ~(d.is_punched_in /\ d.has_punched_out)
               /\ st = "NONE" => /\ d.punch_in_time = None
                                 /\ d.punch_out_time = None]_vars

\* today-status has answered for a user who is punched in
C11_Witness ==
  /\ resp.op = "today"
  /\ resp.body.data.is_punched_in
  /\ ~resp.body.data.has_punched_out
  /\ DayState(records, resp.user, Today) = "PUNCHED_IN"

(***************************************************************************)
(* C12: today-status is a pure read. It answers in every state, for every  *)
(* user, with status 200 / "success", and leaves the Attendance table (and *)
(* everything else the views keep) as it was.                              *)
(***************************************************************************)
C12_TodayPureRead ==
  /\ [](\A user \in Users : ENABLED TodayGet(user))
  /\ [][\A user \in Users :
          TodayGet(user)
            => /\ records' = records
               /\ users' = users
               /\ now' = now
               /\ resp'.op = "today"
               /\ resp'.status = 200
               /\ resp'.body.status = "success"]_vars

\* today-status has answered over a table that holds rows, one of them closed
C12_Witness ==
  /\ resp.op = "today"
  /\ resp.status = 200
  /\ \E i \in 1..Len(records) :
       records[i].user = resp.user /\ records[i].punch_out_time # None

\* distance from a request coordinate to each branch, by branch index
BranchDistances ==
  [la \in Lats, lo \in Lons |->
     [i \in 1..Len(BRANCHES) |->
        calculate_distance(la, lo, BRANCHES[i].lat, BRANCHES[i].lon)]]

\* the branches no other branch is nearer than, by index
NearestIds(la, lo) ==
  {i \in 1..Len(BRANCHES) :
     \A j \in 1..Len(BRANCHES) : BranchDistances[la, lo][i] <= BranchDistances[la, lo][j]}

\* a punch response that reports a branch and a distance
ReportsBranch(r) ==
  /\ r.op \in {"punch_in", "punch_out"}
  /\ "distance" \in DOMAIN r.body

ReportedBranch(r) ==
  IF "nearest_branch" \in DOMAIN r.body THEN r.body.nearest_branch ELSE r.body.branch

(***************************************************************************)
(* C13: whenever punch-in or punch-out reports a branch and a distance (on *)
(* success and on the out-of-range rejection), no branch is nearer to the  *)
(* request coordinate than the reported one, the distance is the distance  *)
(* to it, and of several branches at that distance the first in            *)
(* configuration order is the one reported.                                *)
(***************************************************************************)
C13_NearestReported ==
  ReportsBranch(resp)
    => LET la == req.data.latitude
           lo == req.data.longitude
           first == MinOf(NearestIds(la, lo))
       IN /\ ReportedBranch(resp) = BRANCHES[first].name
          /\ resp.body.distance = Round2(BranchDistances[la, lo][first])

\* a punch-in from a coordinate two branches are equally near to was answered
\* with the first of them
C13_Witness ==
  /\ ReportsBranch(resp)
  /\ resp.op = "punch_in"
  /\ Cardinality(NearestIds(req.data.latitude, req.data.longitude)) > 1
  /\ ReportedBranch(resp) = BRANCHES[1].name

\* distance from the coordinate of a request to the nearest branch
MinDistance(data) ==
  BranchDistances[data.latitude, data.longitude]
                 [MinOf(NearestIds(data.latitude, data.longitude))]

\* the out-of-range rejection of either view
RangeRejected(r) ==
  \/ IsOutcome(r, "punch_in", "You are out of range")
  \/ IsOutcome(r, "punch_out", "You are out of range for ")

(***************************************************************************)
(* C14: the range check is inclusive. A punch that reaches the range check *)
(* (punch-in with coordinates; punch-out with coordinates of a user with   *)
(* an open record) is rejected as out of range exactly when the distance   *)
(* to the nearest branch is strictly greater than the radius; at a         *)
(* distance equal to the radius it is not.                                 *)
(***************************************************************************)
C14_InclusiveRadius ==
  (/\ resp.op \in {"punch_in", "punch_out"}
   /\ HasCoords(req.data)
   /\ ~IsOutcome(resp, "punch_out", "You have not punched in today"))
    => /\ RangeRejected(resp) <=> MinDistance(req.data) > PUNCH_RADIUS
       /\ MinDistance(req.data) = PUNCH_RADIUS => ~RangeRejected(resp)

\* a punch-out from exactly the radius away has succeeded
C14_Witness ==
  /\ resp.op = "punch_out"
  /\ Succeeded(resp)
  /\ MinDistance(req.data) = PUNCH_RADIUS

(***************************************************************************)
(* C15: the record a successful punch-out closes is the record             *)
(* today-status reports, in every reachable table, one with more than one  *)
(* record of the user and day included: when a punch-out saves the record  *)
(* its query selects in the present table, today-status asked right after  *)
(* reports that record.                                                    *)
(***************************************************************************)
C15_PunchOutClosesReported ==
  [][\A p \in Procs :
       (/\ PunchOutWrite(p)
        /\ ActiveToday(records, procs[p].user, Today) = procs[p].attendance)
         => LET reported ==
                  TodayStatus(procs[p].user,
                              LatestToday(records', procs[p].user, Today)).body.data
            IN /\ "raw" \in DOMAIN reported
               /\ reported.raw.id = resp'.body.data.id]_vars

(***************************************************************************)
(* C16: with a clock that never goes back, under every interleaving of the *)
(* requests' steps, every row that has a punch-out time has it at or after *)
(* its punch-in time.                                                      *)
(***************************************************************************)
C16_OutNotBeforeIn ==
  \A i \in 1..Len(records) :
    records[i].punch_out_time # None
      => records[i].punch_out_time[1] >= records[i].punch_in_time

\* two rows of one user and day, left by racing punch-ins, one of them
\* closed later than it was opened
C16_Witness ==
  \E i, j \in 1..Len(records) :
    /\ i # j
    /\ records[i].user = records[j].user
    /\ Day(records[i].punch_in_time) = Day(records[j].punch_in_time)
    /\ records[i].punch_out_time # None
    /\ records[i].punch_out_time[1] > records[i].punch_in_time

\* the sign-in request carries a token Google verifies
Verified(data) ==
  /\ "id_token" \in DOMAIN data
  /\ data.id_token \in {"t_ann", "t_ann2", "t_bob", "t_eve", "t_anon"}

\* the verified token of the request names an allow-listed email
AllowListed(data) ==
  /\ Verified(data)
  /\ data.id_token \in {"t_ann", "t_ann2", "t_bob"}

\* the answer carries an access / refresh token pair
IssuesTokens(r) == "access" \in DOMAIN r.body \/ "refresh" \in DOMAIN r.body

(***************************************************************************)
(* C17: sign-in enforces the allow-list before it touches the User table.  *)
(* For a verified token whose email is not allow-listed the answer is 403  *)
(* "Not allowed", the User table is as it was, and no token pair is        *)
(* issued; a token pair is issued only for an allow-listed email, and      *)
(* every user row holds an allow-listed email.                             *)
(***************************************************************************)
C17_AllowListFirst ==
  /\ [](\A i \in 1..Len(users) : users[i].email \in WHITELISTED_EMAILS)
  /\ [][\A data \in AuthData :
          GoogleAuth(data)
            => /\ (Verified(data) /\ ~AllowListed(data))
                    => /\ resp'.status = 403
                       /\ resp'.body.error = <<"Not allowed">>
                       /\ users' = users
                       /\ ~IssuesTokens(resp')
               /\ IssuesTokens(resp')
                    => /\ AllowListed(data)
                       /\ resp'.body.email[1] \in WHITELISTED_EMAILS
                       /\ resp'.body.access[2].email \in WHITELISTED_EMAILS
                       /\ resp'.body.refresh[2].email \in WHITELISTED_EMAILS]_vars

\* a verified token of an email off the allow-list was just refused, with
\* users already in the table
C17_Witness ==
  /\ resp.op = "google_auth"
  /\ resp.status = 403
  /\ req.data = [id_token |-> "t_eve"]
  /\ Len(users) > 0

\* the user's last successful punch was operation op, today
LastOkToday(user, op) == lastOk[user] = Some([day |-> Today, op |-> op])

(***************************************************************************)
(* C18: under serial execution the successful punch-ins and punch-outs of  *)
(* one user on one day strictly alternate, beginning with a punch-in: a    *)
(* punch-in never succeeds when the user's last success of the day was a   *)
(* punch-in, and a punch-out succeeds only when it was a punch-in.         *)
(***************************************************************************)
C18_StrictAlternation ==
  [][\A user \in Users, data \in RequestData :
       /\ (PunchIn(user, data) /\ Succeeded(resp'))
            => ~LastOkToday(user, "punch_in")
       /\ (PunchOut(user, data) /\ Succeeded(resp'))
            => LastOkToday(user, "punch_in")]_vars

\* a punch-in, a punch-out and a punch-in again have succeeded today
C18_Witness ==
  /\ resp.op = "punch_in"
  /\ Succeeded(resp)
  /\ resp.body.message[1] = "Punch in updated successfully"
  /\ LastOkToday(resp.user, "punch_in")

(***************************************************************************)
(* C19: the save of a punch-out changes only the punch-out fields of the   *)
(* row, whatever other requests wrote to the row between the punch-out's   *)
(* fetch and its save: the row's punch-in time and coordinates after the   *)
(* save are those it had just before.                                      *)
(***************************************************************************)
C19_PunchOutKeepsPunchIn ==
  [][\A p \in Procs :
       PunchOutWrite(p)
         => LET id == procs[p].attendance[1].id
            IN /\ records'[id].punch_in_time = records[id].punch_in_time
               /\ records'[id].punch_in_lat = records[id].punch_in_lat
               /\ records'[id].punch_in_lon = records[id].punch_in_lon]_vars

\* the user has an open row of an earlier day and no row today
LeftOpen(user) ==
  /\ DayState(records, user, Today) = "NONE"
  /\ \E i \in 1..Len(records) :
       /\ records[i].user = user
       /\ records[i].punch_in_time \div DayLen < Today
       /\ records[i].punch_out_time = None

\* the Attendance row a response shows, if it shows one
ShownRow(r) ==
  IF r.op \in {"punch_in", "punch_out"} /\ "data" \in DOMAIN r.body
    THEN Some(r.body.data)
  ELSE IF r.op = "today" /\ "raw" \in DOMAIN r.body.data
    THEN Some(r.body.data.raw)
  ELSE None

(***************************************************************************)
(* C20: records are scoped to the calendar day of their punch-in time.     *)
(* Under serial execution no step changes a row of an earlier day, and no  *)
(* punch-in, punch-out or today-status answer shows one. A user left       *)
(* punched in on an earlier day is in state NONE today: an in-range        *)
(* punch-in creates a new row, a punch-out with coordinates fails with     *)
(* "You have not punched in today", today-status reports no record, and    *)
(* the earlier row stays open.                                             *)
(***************************************************************************)
C20_DayScoped ==
  [][/\ \A i \in 1..Len(records) :
          records[i].punch_in_time \div DayLen < Today
            => /\ Len(records') >= i
               /\ records'[i] = records[i]
     /\ \A user \in Users :
          /\ TodayGet(user) /\ ShownRow(resp') # None
               => ShownRow(resp')[1].punch_in_time \div DayLen = Today
          /\ TodayGet(user) /\ LeftOpen(user)
               => /\ ~resp'.body.data.is_punched_in
                  /\ ~resp'.body.data.has_punched_out
                  /\ resp'.body.data.punch_in_time = None
     /\ \A user \in Users, data \in RequestData :
          /\ (PunchIn(user, data) \/ PunchOut(user, data)) /\ ShownRow(resp') # None
               => ShownRow(resp')[1].punch_in_time \div DayLen = Today
          /\ PunchIn(user, data) /\ LeftOpen(user) /\ HasCoords(data) /\ ~Far(data)
               => /\ Len(records') = Len(records) + 1
                  /\ records'[Len(records')].user = user
                  /\ records'[Len(records')].punch_in_time = now
                  /\ resp'.status = 201
          /\ PunchOut(user, data) /\ LeftOpen(user) /\ HasCoords(data)
               => /\ IsOutcome(resp', "punch_out", "You have not punched in today")
                  /\ records' = records]_vars

\* a user left punched in yesterday has punched in today: yesterday's row is
\* still open beside today's new row
C20_Witness ==
  \E i, j \in 1..Len(records) :
    /\ records[i].user = records[j].user
    /\ records[i].punch_in_time \div DayLen < Today
    /\ records[i].punch_out_time = None
    /\ records[j].punch_in_time \div DayLen = Today
    /\ resp.op = "punch_in" /\ resp.status = 201 /\ resp.body.data.id = j

====
